---- MODULE Spec2Model ----
(***************************************************************************)
(* A model of rakune: the file-edit engine (GitRepository::transform,      *)
(* Fragment::read_lines), the edit-instruction parser                      *)
(* (TryFrom<&str> for Transformation), the build runner                    *)
(* (RustBuilder::build) and the self-correction loop of main.              *)
(*                                                                         *)
(* Text is modelled as a sequence of chunks.  A chunk is an opaque piece   *)
(* of text without a line break; NL and CR are the two line-break bytes.   *)
(* A line is a sequence of chunks, a file content is a sequence of chunks, *)
(* NL and CR.                                                              *)
(***************************************************************************)
EXTENDS Integers, Sequences, FiniteSets, TLC

VARIABLES
    fs,             \* the file system: path -> content, or NoFile
    transformation, \* argument of the library call GitRepository::transform
    result,         \* outcome of that call
    before,         \* content of the file system when the call was made
    at,             \* where the call is, when it is followed statement by statement
    value,          \* the text handed to Transformation::try_from
    parsed,         \* outcome of that call
    fragment,       \* the fragment of the library call Fragment::read_lines
    read,           \* outcome of that call
    output,         \* what the build process left: exit status and stderr
    debug_assertions, \* the profile rakune itself was compiled with
    built,          \* outcome of RustBuilder::build
    pc,             \* where main is
    comments,       \* main's work stack
    comment,        \* the comment generate_transformations works on
    prompt,         \* the last prompt sent to the oracle
    answer,         \* the oracle's reply to it
    commit_message, \* the summary generate_commit returned
    failure,        \* the error main returned
    fixes_after,    \* {n}: the build succeeds once n edits were applied; {}: never
    cycles,         \* completed calls of generate_transformations
    unbuilt         \* a transformation was applied and no build has run since

applyVars == <<transformation, result, before, at>>
parseVars == <<value, parsed>>
readVars == <<fragment, read>>
buildVars == <<output, debug_assertions, built>>
loopVars == <<pc, comments, comment, prompt, answer, commit_message, failure,
              fixes_after, cycles, unbuilt>>
vars == <<fs, applyVars, parseVars, readVars, buildVars, loopVars>>

-----------------------------------------------------------------------------
(* Bounds of the model *)

MaxLines == 4       \* longest initial file, in lines
MaxLineNo == 5      \* largest line number an UpdateFragment carries

-----------------------------------------------------------------------------
(* Text *)

NL == "\n"
CR == "\r"
NoFile == "NoFile"
Pending == [res |-> "pending"]     \* no parse has been made
NoCall == [kind |-> "none"]        \* no transformation is at hand

TestPath == "src/test.rs"     \* the file the tool edits
LibPath == "src/lib.rs"       \* a path the edited tree has no file at
Paths == {TestPath, LibPath}

RECURSIVE IndexOfNL(_, _)
\* position of the first NL of s at or after i, 0 when there is none
IndexOfNL(s, i) ==
    IF i > Len(s) THEN 0
    ELSE IF s[i] = NL THEN i
    ELSE IndexOfNL(s, i + 1)

\* one piece of split_inclusive('\n'), its "\n" and then its "\r" stripped
StripCR(l) ==
    IF Len(l) > 0 /\ l[Len(l)] = CR THEN SubSeq(l, 1, Len(l) - 1) ELSE l

RECURSIVE str_lines(_)
\* str::lines(): split at "\n" or "\r\n"; a final line needs no line ending,
\* and a line ending at the very end yields no further (empty) line
str_lines(s) ==
    IF s = <<>> THEN <<>>
    ELSE LET i == IndexOfNL(s, 1) IN
         IF i = 0 THEN <<s>>
         ELSE <<StripCR(SubSeq(s, 1, i - 1))>> \o str_lines(SubSeq(s, i + 1, Len(s)))

RECURSIVE join(_)
\* [&str]::join("\n"): the lines with one NL between neighbours, none at the end
join(ls) ==
    IF ls = <<>> THEN <<>>
    ELSE IF Len(ls) = 1 THEN ls[1]
    ELSE ls[1] \o <<NL>> \o join(Tail(ls))

-----------------------------------------------------------------------------
(* Fragment and Transformation *)

Fragment(path, s, e) == [filepath |-> path, line_range |-> <<s, e>>]

UpdateFragment(frag, ls) ==
    [kind |-> "UpdateFragment", fragment |-> frag, updated_lines |-> ls]
InsertFragment(n, ls) ==
    [kind |-> "InsertFragment", line_no |-> n, content |-> ls]
CreateFile(p) == [kind |-> "CreateFile", path |-> p]
DeleteFile(p) == [kind |-> "DeleteFile", path |-> p]
MoveFile(o, n) == [kind |-> "MoveFile", old |-> o, new |-> n]
RenameSymbol(o, n) == [kind |-> "RenameSymbol", old |-> o, new |-> n]

\* Fragment::read_file: std::fs::read_to_string, an error when the file is absent
read_file(f, frag) ==
    IF f[frag.filepath] = NoFile
    THEN [ok |-> FALSE, err |-> "Io"]
    ELSE [ok |-> TRUE, content |-> f[frag.filepath]]

\* the bounds test with the end of the range left unchecked
OutOfBound_StartOnly(range, n) ==
    ~(range[1] \in 0..n)

\* the bounds test shared by transform and read_lines:
\* [range.0, range.1].iter().any(|r| !(0..=lines.len()).contains(r))
OutOfBound(range, n) ==
    \E k \in 1..2 : ~(range[k] \in 0..n)

\* Vec::splice(start..=end, with): the inclusive range is turned into
\* start..end+1 and checked against the vector (slice::range); a range that
\* starts after its end or ends after the vector panics
splice_inclusive(ls, s, e, with) ==
    IF s > e + 1 \/ e + 1 > Len(ls)
    THEN [ok |-> FALSE, err |-> "Panic"]
    ELSE [ok |-> TRUE,
          lines |-> SubSeq(ls, 1, s) \o with \o SubSeq(ls, e + 2, Len(ls))]

\* File::options().write(true).create(true).truncate(true).open(path) and
\* write_all(lines.join("\n")): the file holds exactly the joined lines
write_file(f, path, ls) == [f EXCEPT ![path] = join(ls)]

\* GitRepository::transform: the outcome and the file system it leaves
transform(f, t) ==
    IF t.kind = "UpdateFragment" THEN
        LET rd == read_file(f, t.fragment) IN
        IF ~rd.ok THEN [res |-> "Io", fs |-> f]
        ELSE LET ls == str_lines(rd.content)
                 s == t.fragment.line_range[1]
                 e == t.fragment.line_range[2]
             IN  IF OutOfBound(t.fragment.line_range, Len(ls))
                 THEN [res |-> "OutOfBounds", fs |-> f]
                 ELSE LET sp == splice_inclusive(ls, s, e, t.updated_lines) IN
                      IF ~sp.ok THEN [res |-> "Panic", fs |-> f]
                      ELSE [res |-> "Ok",
                            fs |-> write_file(f, t.fragment.filepath, sp.lines)]
    ELSE [res |-> "Panic", fs |-> f]       \* _ => unreachable!()

\* the variables of read_lines in a run that does not follow a call of it
ReadIdle ==
    /\ fragment = Fragment(TestPath, 0, 0)
    /\ read = Pending

\* the build variables of a run that builds nothing
BuildIdle ==
    /\ output = [status |-> 0, stderr |-> <<>>]
    /\ debug_assertions = FALSE
    /\ built = Pending

NoComment == [message |-> <<>>, fragments |-> <<>>]
NoPrompt == [kind |-> "none"]
Never == {}       \* fixes_after of a tree no edit ever repairs

\* the variables of main in a run that does not enter main
LoopIdle ==
    /\ pc = "idle"
    /\ comments = <<>>
    /\ comment = NoComment
    /\ prompt = NoPrompt
    /\ answer = <<>>
    /\ commit_message = <<>>
    /\ failure = "none"
    /\ fixes_after = Never
    /\ cycles = 0
    /\ unbuilt = FALSE

-----------------------------------------------------------------------------
(* Inputs of the library call *)

LineTexts == {<<"a">>, <<"b">>}
ExampleLines == <<<<"a">>, <<"b">>, <<"c">>, <<"d">>>>

SeqsUpTo(S, n) == UNION {[1..k -> S] : k \in 0..n}

\* the initial files: lines, ended by nothing, by "\n" or by "\r\n"
InitLines == SeqsUpTo(LineTexts, MaxLines) \cup {ExampleLines}
Endings == {<<>>, <<NL>>, <<CR, NL>>}
InitContents == {join(ls) \o en : ls \in InitLines, en \in Endings}

UpdateChoices == {<<>>, <<<<"X">>>>, <<<<"X">>, <<"Y">>>>}

Transformations ==
    {UpdateFragment(Fragment(p, s, e), ls) :
        p \in Paths, s \in 0..MaxLineNo, e \in 0..MaxLineNo, ls \in UpdateChoices}
    \cup {InsertFragment(n, ls) : n \in 0..MaxLineNo, ls \in UpdateChoices}
    \cup {CreateFile(LibPath), DeleteFile(TestPath),
          MoveFile(TestPath, LibPath), RenameSymbol("a", "b")}

-----------------------------------------------------------------------------
(* The library call: one call of GitRepository::transform on a file system *)

InitApply ==
    /\ \E c \in InitContents :
          fs = [p \in Paths |-> IF p = TestPath THEN c ELSE NoFile]
    /\ transformation \in Transformations
    /\ result = "pending"
    /\ before = fs
    /\ ReadIdle
    /\ at = "whole"
    /\ value = <<>>
    /\ parsed = Pending
    /\ BuildIdle
    /\ LoopIdle

Transform ==
    /\ result = "pending"
    /\ LET r == transform(fs, transformation) IN
         /\ result' = r.res
         /\ fs' = r.fs
    /\ UNCHANGED <<transformation, before, at, parseVars, readVars, buildVars, loopVars>>

NextApply == Transform

SpecApply == InitApply /\ [][NextApply]_vars

\* what the checked call was about
Called == result # "pending"
IsUpdate == transformation.kind = "UpdateFragment"
TargetExists == IsUpdate /\ before[transformation.fragment.filepath] # NoFile
OldLines == str_lines(before[transformation.fragment.filepath])
NewLines == str_lines(fs[transformation.fragment.filepath])
Start == transformation.fragment.line_range[1]
End == transformation.fragment.line_range[2]

\* C1: an UpdateFragment with an endpoint outside [0, line_count] is answered
\* with the out-of-bounds error and leaves every file as it was.
C1_OutOfBoundsRejected ==
    (Called /\ TargetExists /\ (Start > Len(OldLines) \/ End > Len(OldLines)))
        => (result = "OutOfBounds" /\ fs = before)

\* C1 witness: a call whose start is inside the file and whose end is not
C1_Witness ==
    /\ Called /\ TargetExists
    /\ Start <= Len(OldLines) /\ End > Len(OldLines)
    /\ Len(OldLines) > 0
    /\ result = "OutOfBounds"

\* C2 (as claimed): for 0 <= start <= end <= len(L) the call succeeds and the
\* file's lines become L[0..start) ++ updated_lines ++ L[end..len(L)).
C2_HalfOpenSplice ==
    (Called /\ TargetExists /\ Start <= End /\ End <= Len(OldLines))
        => /\ result = "Ok"
           /\ NewLines = SubSeq(OldLines, 1, Start) \o transformation.updated_lines
                            \o SubSeq(OldLines, End + 1, Len(OldLines))

\* C10 (as claimed): InsertFragment{line_no, content} with line_no <= len(L)
\* succeeds and puts content before line line_no, removing nothing.
C10_InsertFragment ==
    (Called /\ transformation.kind = "InsertFragment"
            /\ transformation.line_no <= Len(str_lines(before[TestPath])))
        => /\ result = "Ok"
           /\ str_lines(fs[TestPath]) =
                 SubSeq(str_lines(before[TestPath]), 1, transformation.line_no)
                 \o transformation.content
                 \o SubSeq(str_lines(before[TestPath]), transformation.line_no + 1,
                           Len(str_lines(before[TestPath])))

\* C11 (as claimed): for every variant of Transformation the call returns Ok
\* or an error value; no variant makes the process panic.
C11_TransformTotal ==
    Called => result \in {"Ok", "OutOfBounds", "Io", "Unsupported"}

\* C13 (as claimed): an UpdateFragment with both endpoints in [0, line_count]
\* and start > end is answered with the out-of-bounds error, and the file is
\* as it was.
C13_InvertedRangeRejected ==
    (Called /\ TargetExists /\ Start <= Len(OldLines) /\ End <= Len(OldLines)
            /\ Start > End)
        => (result = "OutOfBounds" /\ fs = before)

\* C23 (as claimed): a successful UpdateFragment whose updated_lines are the
\* lines now in [start, end) leaves every file byte for byte as it was.
C23_IdentityEditKeepsBytes ==
    (Called /\ TargetExists /\ result = "Ok"
            /\ transformation.updated_lines = SubSeq(OldLines, Start + 1, End))
        => fs = before

-----------------------------------------------------------------------------
\* The library call followed statement by statement, with the process
\* stopping at any point of it (a kill, a power loss).

\* the transformations of a call that is followed: every UpdateFragment
Updates == {t \in Transformations : t.kind = "UpdateFragment"}

InitWrite ==
    /\ \E c \in InitContents :
          fs = [p \in Paths |-> IF p = TestPath THEN c ELSE NoFile]
    /\ transformation \in Updates
    /\ result = "pending"
    /\ before = fs
    /\ ReadIdle
    /\ at = "entry"
    /\ value = <<>>
    /\ parsed = Pending
    /\ BuildIdle
    /\ LoopIdle

\* the bytes write_all is given: lines.join("\n") of the spliced lines
new_content == transform(before, transformation).fs[transformation.fragment.filepath]

\* read_file, lines(), the bounds test and splice: nothing is written yet;
\* an error or a panic ends the call here
Splice ==
    /\ at = "entry"
    /\ LET r == transform(fs, transformation) IN
         IF r.res = "Ok"
         THEN at' = "spliced" /\ UNCHANGED result
         ELSE at' = "returned" /\ result' = r.res
    /\ UNCHANGED <<fs, transformation, before, parseVars, readVars, buildVars, loopVars>>

\* File::options().write(true).create(true).truncate(true).open(..): the
\* file is there and empty when open returns
OpenTruncate ==
    /\ at = "spliced"
    /\ fs' = [fs EXCEPT ![transformation.fragment.filepath] = <<>>]
    /\ at' = "opened"
    /\ UNCHANGED <<transformation, result, before, parseVars, readVars, buildVars, loopVars>>

\* write_all: one write(2) of its loop, which takes some of the bytes left
WriteSome ==
    /\ at = "opened"
    /\ \E k \in (Len(fs[transformation.fragment.filepath]) + 1)..Len(new_content) :
          fs' = [fs EXCEPT ![transformation.fragment.filepath] =
                               SubSeq(new_content, 1, k)]
    /\ UNCHANGED <<applyVars, parseVars, readVars, buildVars, loopVars>>

\* write_all has written every byte; the file is closed and Ok(()) returned
Return ==
    /\ at = "opened"
    /\ fs[transformation.fragment.filepath] = new_content
    /\ at' = "returned"
    /\ result' = "Ok"
    /\ UNCHANGED <<fs, transformation, before, parseVars, readVars, buildVars, loopVars>>

\* the process stops while the call is running
Crash ==
    /\ at \in {"entry", "spliced", "opened"}
    /\ at' = "crashed"
    /\ UNCHANGED <<fs, transformation, result, before, parseVars, readVars, buildVars,
                   loopVars>>

NextWrite == Splice \/ OpenTruncate \/ WriteSome \/ Return \/ Crash

SpecWrite == InitWrite /\ [][NextWrite]_vars

\* a call that ran to its end leaves what the call taken as a whole leaves
WriteAgreesWithTransform ==
    at = "returned" =>
        /\ result = transform(before, transformation).res
        /\ fs = transform(before, transformation).fs

\* C14 (as claimed): when the process stops during the call, the target
\* file holds its complete old content or its complete new content.
C14_AtomicWriteBack ==
    (at = "crashed" /\ before[transformation.fragment.filepath] # NoFile)
        => \/ fs[transformation.fragment.filepath]
                 = before[transformation.fragment.filepath]
           \/ /\ transform(before, transformation).res = "Ok"
              /\ fs[transformation.fragment.filepath] = new_content

-----------------------------------------------------------------------------
\* The oracle's answer and its parser.
\*
\* An answer is a sequence of text lines, each followed by a line break.
\* The pattern of try_from reads the keys filepath:, start_line:, end_line:
\* and content: on four consecutive lines and then everything up to a
\* closing fence, so a line is modelled by the key it carries and the text
\* after the key.

FpLine(p) == [k |-> "filepath", v |-> p]
SlLine(x) == [k |-> "start_line", v |-> x]
ElLine(x) == [k |-> "end_line", v |-> x]
CtLine(l) == [k |-> "content", v |-> l]
TxLine(l) == [k |-> "text", v |-> l]
FenceLine == [k |-> "fence", v |-> <<"<fence>">>]

\* the characters of a line, as the content capture sees them
raw(ln) ==
    CASE ln.k = "filepath"   -> <<"    filepath: ", ln.v>>
      [] ln.k = "start_line" -> <<"    start_line: ", ln.v>>
      [] ln.k = "end_line"   -> <<"    end_line: ", ln.v>>
      [] ln.k = "content"    -> <<"    content: ">> \o ln.v
      [] OTHER               -> ln.v

\* The number texts the model writes after start_line: and end_line:, and
\* after the colon of a build error's location.
Huge == "18446744073709551616"        \* usize::MAX + 1: digits, not a usize
Word == "one"                         \* not digits
LexValue == [x \in {"0", "1", "2", "3", "6", "9"} |->
                CASE x = "0" -> 0 [] x = "1" -> 1 [] x = "2" -> 2 [] x = "3" -> 3
                  [] x = "6" -> 6 [] x = "9" -> 9]

\* \d+
IsDigits(x) == x \in DOMAIN LexValue \cup {Huge}

\* str::parse::<usize>()
parse_usize(x) ==
    IF x \in DOMAIN LexValue THEN [ok |-> TRUE, n |-> LexValue[x]]
    ELSE [ok |-> FALSE]

IsFence(v, j) == j \in 1..Len(v) /\ v[j].k = "fence"

\* the four header lines of the pattern start at line i
HeaderAt(v, i) ==
    /\ i >= 1 /\ i + 3 <= Len(v)
    /\ v[i].k = "filepath"
    /\ v[i + 1].k = "start_line" /\ IsDigits(v[i + 1].v)
    /\ v[i + 2].k = "end_line" /\ IsDigits(v[i + 2].v)
    /\ v[i + 3].k = "content"

\* the pattern matches with its first character in line i: the header, and
\* a fence somewhere after the content key
MatchAt(v, i) == HeaderAt(v, i) /\ \E j \in (i + 4)..Len(v) : IsFence(v, j)

\* the content capture is greedy: it runs to the last fence of the text
LastFence(v) ==
    IF \E j \in 1..Len(v) : IsFence(v, j)
    THEN CHOOSE j \in 1..Len(v) : IsFence(v, j) /\ \A m \in (j + 1)..Len(v) : ~IsFence(v, m)
    ELSE 0

RECURSIVE captures_iter(_, _)
\* Regex::captures_iter: the leftmost match at or after line pos, then the
\* matches after its end
captures_iter(v, pos) ==
    IF \E i \in pos..Len(v) : MatchAt(v, i)
    THEN LET i == CHOOSE i \in pos..Len(v) :
                    MatchAt(v, i) /\ \A m \in pos..(i - 1) : ~MatchAt(v, m)
             e == LastFence(v)
         IN  <<[filepath |-> v[i].v,
                start |-> v[i + 1].v,
                end |-> v[i + 2].v,
                content |-> <<v[i + 3].v>>
                              \o [n \in 1..(e - i - 4) |-> raw(v[i + 3 + n])]]>>
             \o captures_iter(v, e + 1)
    ELSE <<>>

\* the closure of try_from's map: start.parse().unwrap(), end.parse().unwrap(),
\* content.lines()
to_update_fragment(c) ==
    IF ~parse_usize(c.start).ok \/ ~parse_usize(c.end).ok
    THEN [res |-> "Panic"]
    ELSE [res |-> "Ok",
          t |-> UpdateFragment(
                    Fragment(c.filepath, parse_usize(c.start).n, parse_usize(c.end).n),
                    c.content)]

\* impl TryFrom<&str> for Transformation: the first match, mapped; the map
\* is lazy, so only the first match is ever converted
try_from(v) ==
    LET cs == captures_iter(v, 1) IN
    IF cs = <<>> THEN [res |-> "NoMatch"]      \* "failed to parse transformation"
    ELSE to_update_fragment(cs[1])

\* the parse with a missing match taken for an empty list of edits
parse_answer_EmptyOk(v) ==
    LET r == try_from(v) IN
    IF r.res = "Ok" THEN [res |-> "Ok", seq |-> <<r.t>>]
    ELSE IF r.res = "NoMatch" THEN [res |-> "Ok", seq |-> <<>>]
    ELSE r

\* vec![Transformation::try_from(answer.as_str())?]
parse_answer(v) ==
    LET r == try_from(v) IN
    IF r.res = "Ok" THEN [res |-> "Ok", seq |-> <<r.t>>] ELSE r

-----------------------------------------------------------------------------
(* Answers the model parses *)

MaxSegments == 3    \* an answer is made of at most this many pieces

BlockA == <<FpLine(TestPath), SlLine("0"), ElLine("1"), CtLine(<<"X">>), FenceLine>>
BlockB == <<FpLine(LibPath), SlLine("1"), ElLine("2"), CtLine(<<"Y">>),
            TxLine(<<"Z">>), FenceLine>>
BlockHugeStart ==
    <<FpLine(TestPath), SlLine(Huge), ElLine("1"), CtLine(<<"X">>), FenceLine>>
BlockHugeEnd ==
    <<FpLine(TestPath), SlLine("0"), ElLine(Huge), CtLine(<<"X">>), FenceLine>>
BlockWord ==
    <<FpLine(TestPath), SlLine(Word), ElLine("1"), CtLine(<<"X">>), FenceLine>>
BlockOpen == <<FpLine(TestPath), SlLine("0"), ElLine("1"), CtLine(<<"X">>)>>

AnswerLines ==
    {FpLine(TestPath), SlLine("1"), ElLine("2"), CtLine(<<"X">>),
     TxLine(<<"t">>), FenceLine}

Segments ==
    {<<ln>> : ln \in AnswerLines}
    \cup {BlockA, BlockB, BlockHugeStart, BlockHugeEnd, BlockWord, BlockOpen}

RECURSIVE Concat(_)
Concat(ss) == IF ss = <<>> THEN <<>> ELSE ss[1] \o Concat(Tail(ss))

Answers == {Concat(ss) : ss \in SeqsUpTo(Segments, MaxSegments)}

NoFiles == [p \in Paths |-> NoFile]

-----------------------------------------------------------------------------
(* The parser call: one answer, parsed once *)

InitParse ==
    /\ value \in Answers
    /\ parsed = Pending
    /\ fs = NoFiles
    /\ transformation = NoCall
    /\ result = "pending"
    /\ before = fs
    /\ ReadIdle
    /\ at = "whole"
    /\ BuildIdle
    /\ LoopIdle

Parse ==
    /\ parsed = Pending
    /\ parsed' = parse_answer(value)
    /\ UNCHANGED <<value, fs, applyVars, readVars, buildVars, loopVars>>

NextParse == Parse

SpecParse == InitParse /\ [][NextParse]_vars

\* The edit blocks of a text, as the textual contract describes them: the
\* four keys on consecutive lines, the content running to the next fence.
NextFence(v, i) ==
    IF \E j \in i..Len(v) : IsFence(v, j)
    THEN CHOOSE j \in i..Len(v) : IsFence(v, j) /\ \A m \in i..(j - 1) : ~IsFence(v, m)
    ELSE 0

BlockAt(v, i) == HeaderAt(v, i) /\ NextFence(v, i + 4) # 0

RECURSIVE EditBlocks(_, _)
EditBlocks(v, pos) ==
    IF \E i \in pos..Len(v) : BlockAt(v, i)
    THEN LET i == CHOOSE i \in pos..Len(v) :
                    BlockAt(v, i) /\ \A m \in pos..(i - 1) : ~BlockAt(v, m)
             e == NextFence(v, i + 4)
         IN  <<[at |-> i, end |-> e]>> \o EditBlocks(v, e + 1)
    ELSE <<>>

Representable(v, b) ==
    parse_usize(v[b.at + 1].v).ok /\ parse_usize(v[b.at + 2].v).ok

\* the transformation a block stands for
BlockEdit(v, b) ==
    UpdateFragment(
        Fragment(v[b.at].v, parse_usize(v[b.at + 1].v).n, parse_usize(v[b.at + 2].v).n),
        <<v[b.at + 3].v>> \o [n \in 1..(b.end - b.at - 4) |-> raw(v[b.at + 3 + n])])

Parsed == parsed # Pending
ValueBlocks == EditBlocks(value, 1)

\* C5 (as claimed): a text with n >= 1 well-formed blocks parses to exactly n
\* transformations, one per block, in order, each with its own block's
\* filepath, line numbers and content lines.
C5_EveryBlockParsed ==
    (/\ Parsed
     /\ Len(ValueBlocks) >= 1
     /\ \A n \in 1..Len(ValueBlocks) : Representable(value, ValueBlocks[n]))
        => /\ parsed.res = "Ok"
           /\ parsed.seq = [n \in 1..Len(ValueBlocks) |-> BlockEdit(value, ValueBlocks[n])]

\* C6: a text without any edit block is answered with the no-match error, and
\* a successful parse never carries an empty transformation sequence.
C6_NoMatchNeverEmpty ==
    Parsed => /\ (ValueBlocks = <<>> => parsed.res = "NoMatch")
              /\ (parsed.res = "Ok" => Len(parsed.seq) >= 1)

\* C6 witness: the four keys are there but no closing fence, and the parse
\* has failed with the no-match error
C6_Witness ==
    /\ Parsed
    /\ \E i \in 1..Len(value) : HeaderAt(value, i)
    /\ ValueBlocks = <<>>
    /\ parsed.res = "NoMatch"

\* C7 (as claimed): the parser always returns a transformation sequence or a
\* ParseError, and a matched block whose line number is not representable
\* gives ParseError::Malformed.
C7_ParserTotal ==
    Parsed => /\ parsed.res \in {"Ok", "NoMatch", "Malformed"}
              /\ ((ValueBlocks # <<>> /\ ~Representable(value, ValueBlocks[1]))
                    => parsed.res = "Malformed")

-----------------------------------------------------------------------------
\* The build runner.
\*
\* The stderr of the build is a sequence of text lines.  The pattern of
\* build reads the marker "error: ", a message that may run over several
\* lines, and a location line " --> path:line:column", so a line is
\* modelled as a marker line, a location line or other text.

ErrLine(m) == [k |-> "error", v |-> m]
LocLine(p, l, c) == [k |-> "location", path |-> p, line |-> l, column |-> c]

\* the characters of a stderr line, as the message capture sees them
raw_err(ln) ==
    IF ln.k = "location"
    THEN <<" --> ", ln.path, ":", ln.line, ":", ln.column>>
    ELSE ln.v

\* "\n --> (.*?):(\d+):(\d+)" matches line j
IsLocation(v, j) ==
    /\ j \in 1..Len(v) /\ v[j].k = "location"
    /\ IsDigits(v[j].line) /\ IsDigits(v[j].column)

\* the pattern matches with its first character in line i: the marker, and
\* a location line somewhere after it
ErrorAt(v, i) ==
    /\ i \in 1..Len(v) /\ v[i].k = "error"
    /\ \E j \in (i + 1)..Len(v) : IsLocation(v, j)

\* the message capture is lazy: it stops before the first location line
FirstLocation(v, i) ==
    CHOOSE j \in (i + 1)..Len(v) :
        IsLocation(v, j) /\ \A m \in (i + 1)..(j - 1) : ~IsLocation(v, m)

RECURSIVE error_captures(_, _)
\* file_regex.captures_iter(output): the leftmost match at or after line
\* pos, then the matches after its end
error_captures(v, pos) ==
    IF \E i \in pos..Len(v) : ErrorAt(v, i)
    THEN LET i == CHOOSE i \in pos..Len(v) :
                    ErrorAt(v, i) /\ \A m \in pos..(i - 1) : ~ErrorAt(v, m)
             j == FirstLocation(v, i)
         IN  <<[error |-> join([n \in 1..(j - i) |-> raw_err(v[i + n - 1])]),
                file |-> v[j].path,
                line_no |-> v[j].line]>>
             \o error_captures(v, j + 1)
    ELSE <<>>

\* Prompter::template_debug
template_debug(p) == <<"fix this build error:", NL, NL>> \o p

\* usize::MAX, the value 0 - 1 wraps to when overflow checks are off; the
\* model's numbers end at 2^31 - 1, which stands for it
UsizeMax == 2147483647

\* line_no.parse::<usize>().unwrap() - 1: a panic when the text is no usize,
\* and for 0 a panic with overflow checks and a wrap-around without
line_minus_one(x, debug) ==
    LET n == parse_usize(x) IN
    IF ~n.ok THEN [ok |-> FALSE]
    ELSE IF n.n = 0 THEN (IF debug THEN [ok |-> FALSE] ELSE [ok |-> TRUE, n |-> UsizeMax])
    ELSE [ok |-> TRUE, n |-> n.n - 1]

\* the closure of build's map: one Comment per match
to_comment(c, debug) ==
    [message |-> template_debug(c.error),
     fragments |-> <<Fragment(c.file, line_minus_one(c.line_no, debug).n,
                              parse_usize(c.line_no).n)>>]

\* output.status.code() of a process ended by a signal: None.  Exit codes
\* are never negative, so -1 stands for it.
NoCode == -1

\* every exit of the build process taken as a success
exit_ok_Always(status) == status = status

\* if let Some(code) = output.status.code() { if code == 0 { return Ok(()) } }
exit_ok(status) == status = 0

\* file_regex.captures_iter(output).map(..).collect(): every match becomes a
\* Comment; an unwrap that fails on any of them ends the process
collect_errors(v, debug) ==
    LET cs == error_captures(v, 1) IN
    IF \E n \in 1..Len(cs) : ~line_minus_one(cs[n].line_no, debug).ok
    THEN [res |-> "Panic"]
    ELSE [res |-> "Err", errors |-> [n \in 1..Len(cs) |-> to_comment(cs[n], debug)]]

\* RustBuilder::build, given what the build process left
build(out, debug) ==
    IF exit_ok(out.status) THEN [res |-> "Ok"]
    ELSE collect_errors(out.stderr, debug)

-----------------------------------------------------------------------------
(* Build outputs the model reads *)

MaxErrSegments == 3     \* a stderr is made of at most this many pieces

Statuses == {0, 1, 101, NoCode}

ErrBlock1 == <<ErrLine(<<"E1">>), LocLine(TestPath, "1", "1")>>
ErrBlock2 == <<ErrLine(<<"E2">>), TxLine(<<"note">>), LocLine(LibPath, "3", "2")>>
ErrBlockHuge == <<ErrLine(<<"E3">>), LocLine(TestPath, Huge, "1")>>
ErrBlockZero == <<ErrLine(<<"E4">>), LocLine(TestPath, "0", "1")>>

ErrSegments ==
    {ErrBlock1, ErrBlock2, ErrBlockHuge, ErrBlockZero,
     <<ErrLine(<<"aborting">>)>>,
     <<TxLine(<<"error[E0308]: mismatched types">>)>>,
     <<LocLine(TestPath, "2", "1")>>,
     <<LocLine(TestPath, Word, "1")>>}

Stderrs == {Concat(ss) : ss \in SeqsUpTo(ErrSegments, MaxErrSegments)}

-----------------------------------------------------------------------------
(* The build call: one build process, its output read once *)

InitBuild ==
    /\ output \in [status : Statuses, stderr : Stderrs]
    /\ debug_assertions \in BOOLEAN
    /\ built = Pending
    /\ fs = NoFiles
    /\ transformation = NoCall
    /\ result = "pending"
    /\ before = fs
    /\ ReadIdle
    /\ at = "whole"
    /\ value = <<>>
    /\ parsed = Pending
    /\ LoopIdle

Build ==
    /\ built = Pending
    /\ built' = build(output, debug_assertions)
    /\ UNCHANGED <<output, debug_assertions, fs, applyVars, parseVars, readVars, loopVars>>

NextBuild == Build

SpecBuild == InitBuild /\ [][NextBuild]_vars

Built == built # Pending
Failed == output.status # 0

\* The error blocks of a stderr, as the diagnostic contract describes them:
\* a marker line, message lines, and the next location line.
RECURSIVE ErrorBlocks(_, _)
ErrorBlocks(v, pos) ==
    IF \E i \in pos..Len(v) : v[i].k = "error" /\ \E j \in (i + 1)..Len(v) : IsLocation(v, j)
    THEN LET i == CHOOSE i \in pos..Len(v) :
                    /\ v[i].k = "error" /\ \E j \in (i + 1)..Len(v) : IsLocation(v, j)
                    /\ \A m \in pos..(i - 1) :
                          ~(v[m].k = "error" /\ \E j \in (m + 1)..Len(v) : IsLocation(v, j))
             j == CHOOSE j \in (i + 1)..Len(v) :
                    IsLocation(v, j) /\ \A m \in (i + 1)..(j - 1) : ~IsLocation(v, m)
         IN  <<v[j]>> \o ErrorBlocks(v, j + 1)
    ELSE <<>>

OutputBlocks == ErrorBlocks(output.stderr, 1)

\* C8 (as claimed): build returns Ok exactly when the exit status is 0, Err
\* for every other exit, and an Err without diagnostics when stderr holds no
\* error block.
C8_ExitStatusDecides ==
    Built => /\ (built.res = "Ok" <=> output.status = 0)
             /\ (output.status # 0 => built.res = "Err")
             /\ ((output.status # 0 /\ OutputBlocks = <<>>)
                    => (built.res = "Err" /\ built.errors = <<>>))

\* C9 (as claimed): a failed build with n error blocks returns n diagnostics
\* in stderr order, the i-th with the i-th block's path and the fragment
\* (line - 1, line).
C9_OneDiagnosticPerBlock ==
    (Built /\ Failed /\ \A n \in 1..Len(OutputBlocks) : OutputBlocks[n].line # "0")
        => /\ built.res = "Err"
           /\ Len(built.errors) = Len(OutputBlocks)
           /\ \A n \in 1..Len(OutputBlocks) :
                 /\ Len(built.errors[n].fragments) = 1
                 /\ built.errors[n].fragments[1].filepath = OutputBlocks[n].path
                 /\ IsDigits(OutputBlocks[n].line)
                 /\ parse_usize(OutputBlocks[n].line).ok
                 /\ built.errors[n].fragments[1].line_range =
                        <<parse_usize(OutputBlocks[n].line).n - 1,
                          parse_usize(OutputBlocks[n].line).n>>

-----------------------------------------------------------------------------
\* The self-correction loop of main and the two methods of Coder it calls.

MaxCycles == 5      \* cycles counts up to this number and stays there
MaxFix == 3         \* the largest number of edits a tree needs to build

Comment(m, fr) == [message |-> m, fragments |-> fr]

\* Fragment::read_lines: the lines [start, end) of the file, joined
read_lines(f, frag) ==
    LET rd == read_file(f, frag) IN
    IF ~rd.ok THEN [res |-> "Io"]
    ELSE LET ls == str_lines(rd.content) IN
         IF OutOfBound(frag.line_range, Len(ls)) THEN [res |-> "OutOfBounds"]
         ELSE IF frag.line_range[1] > frag.line_range[2]
              THEN [res |-> "Panic"]       \* lines[start..end] with start > end
              ELSE [res |-> "Ok",
                    text |-> join(SubSeq(ls, frag.line_range[1] + 1, frag.line_range[2]))]

-----------------------------------------------------------------------------
(* The library call: one call of Fragment::read_lines on a file system *)

Fragments ==
    {Fragment(p, s, e) : p \in Paths, s \in 0..MaxLineNo, e \in 0..MaxLineNo}

InitRead ==
    /\ \E c \in InitContents :
          fs = [p \in Paths |-> IF p = TestPath THEN c ELSE NoFile]
    /\ fragment \in Fragments
    /\ read = Pending
    /\ transformation = NoCall
    /\ result = "pending"
    /\ before = fs
    /\ at = "whole"
    /\ value = <<>>
    /\ parsed = Pending
    /\ BuildIdle
    /\ LoopIdle

ReadLines ==
    /\ read = Pending
    /\ read' = read_lines(fs, fragment)
    /\ UNCHANGED <<fragment, fs, applyVars, parseVars, buildVars, loopVars>>

NextRead == ReadLines

SpecRead == InitRead /\ [][NextRead]_vars

\* the lines of the file read_lines was called on
FileLines == str_lines(fs[fragment.filepath])

\* C22 (as claimed): read_lines returns the lines [start, end) when
\* 0 <= start <= end <= line_count and an error for every other range; it
\* never panics.
C22_ReadLinesTotal ==
    (read # Pending /\ fs[fragment.filepath] # NoFile)
        => IF /\ fragment.line_range[1] <= fragment.line_range[2]
              /\ fragment.line_range[2] <= Len(FileLines)
           THEN read = [res |-> "Ok",
                        text |-> join(SubSeq(FileLines, fragment.line_range[1] + 1,
                                             fragment.line_range[2]))]
           ELSE read.res = "OutOfBounds"

-----------------------------------------------------------------------------

\* GitRepository::spatial_context: the fragment's path and its lines, each
\* numbered from 0 within the excerpt
spatial_context(f, frag) ==
    LET rl == read_lines(f, frag) IN
    IF rl.res # "Ok" THEN rl
    ELSE [res |-> "Ok",
          context |-> <<[filepath |-> frag.filepath,
                         lines |-> [n \in 1..Len(str_lines(rl.text)) |->
                                        <<n - 1, str_lines(rl.text)[n]>>]]>>]

\* the context taken from the tree main started on
context_of_Stale(f, c) ==
    IF c.fragments = <<>> THEN [res |-> "Ok", context |-> <<>>]
    ELSE spatial_context(before, c.fragments[1])

\* the context part of generate_transformations' prompt: that of the first
\* fragment, nothing for a comment without fragments
context_of(f, c) ==
    IF c.fragments = <<>> THEN [res |-> "Ok", context |-> <<>>]
    ELSE spatial_context(f, c.fragments[1])

\* Transformation::parse_from, the parser the cli calls: every edit block of
\* the answer in order, an error when there is none or when a line number
\* of a block is no usize
parse_from(v) ==
    LET bs == EditBlocks(v, 1) IN
    IF bs = <<>> THEN [res |-> "NoMatch"]
    ELSE IF \E n \in 1..Len(bs) : ~Representable(v, bs[n]) THEN [res |-> "Malformed"]
    ELSE [res |-> "Ok", seq |-> [n \in 1..Len(bs) |-> BlockEdit(v, bs[n])]]

RECURSIVE apply_from(_, _, _)
\* the transformations applied on a copy f of the tree orig, which is what a
\* failure leaves
apply_from(orig, f, ts) ==
    IF ts = <<>> THEN [res |-> "Ok", fs |-> f, t |-> NoCall, n |-> 0]
    ELSE LET r == transform(f, ts[1]) IN
         IF r.res # "Ok" THEN [res |-> r.res, fs |-> orig, t |-> ts[1], n |-> 0]
         ELSE IF Len(ts) = 1 THEN [res |-> "Ok", fs |-> r.fs, t |-> ts[1], n |-> 1]
         ELSE LET rest == apply_from(orig, r.fs, Tail(ts)) IN
              [rest EXCEPT !.n = rest.n + 1]

\* the sequence applied as a transaction: all of it or nothing
apply_all_Transactional(f, ts) == apply_from(f, f, ts)

RECURSIVE apply_all(_, _)
\* transformations.iter().try_for_each(|t| self.repository.transform(t)):
\* in order, stopping at the first that fails; t is the transformation of
\* the last call of transform and n the number of calls that returned Ok
apply_all(f, ts) ==
    IF ts = <<>> THEN [res |-> "Ok", fs |-> f, t |-> NoCall, n |-> 0]
    ELSE LET r == transform(f, ts[1]) IN
         IF r.res # "Ok" THEN [res |-> r.res, fs |-> r.fs, t |-> ts[1], n |-> 0]
         ELSE IF Len(ts) = 1 THEN [res |-> "Ok", fs |-> r.fs, t |-> ts[1], n |-> 1]
         ELSE LET rest == apply_all(r.fs, Tail(ts)) IN
              [rest EXCEPT !.n = rest.n + 1]

\* GitRepository::diff(None): git diff, the working tree against the tree
\* main started on
diff(f) == [old |-> before, new |-> f]

\* the lint command (cargo fmt) leaves a file as it is or rewrites it with a
\* final line break
lint(f, rewrite) ==
    IF rewrite /\ f[TestPath] # NoFile /\ f[TestPath] # <<>>
              /\ f[TestPath][Len(f[TestPath])] # NL
    THEN [f EXCEPT ![TestPath] = f[TestPath] \o <<NL>>]
    ELSE f

-----------------------------------------------------------------------------
(* What the oracle answers and what the build process leaves, in main *)

SixLines == <<<<"a">>, <<"b">>, <<"c">>, <<"d">>, <<"e">>, <<"f">>>>
LoopContents ==
    {join(SixLines), join(SixLines \o <<<<"g">>>>) \o <<NL>>, join(ExampleLines)}

Block(p, s, e, ls) ==
    <<FpLine(p), SlLine(s), ElLine(e), CtLine(ls[1])>>
    \o [n \in 1..(Len(ls) - 1) |-> TxLine(ls[n + 1])] \o <<FenceLine>>

LoopAnswers ==
    {Block(TestPath, "0", "0", <<<<"X">>>>),
     Block(TestPath, "0", "1", <<<<"X">>>>),
     Block(TestPath, "0", "0", <<<<"X">>>>) \o Block(TestPath, "1", "1", <<<<"Y">>>>),
     Block(TestPath, "1", "1", <<<<"Y">>>>) \o Block(LibPath, "0", "0", <<<<"X">>>>),
     Block(TestPath, "0", "1", <<<<"X">>>>) \o Block(TestPath, "6", "6", <<<<"Y">>>>),
     Block(TestPath, "0", "9", <<<<"X">>>>),
     Block(TestPath, "6", "6", <<<<"X">>>>),
     BlockHugeStart,
     <<TxLine(<<"t">>)>>}

Summaries == {<<>>, <<"S">>}

LoopStderrs ==
    {<<>>, ErrBlock1, ErrBlock1 \o ErrBlock2, ErrBlock2 \o ErrBlock1,
     ErrBlockHuge, ErrBlockZero,
     <<TxLine(<<"error[E0308]: mismatched types">>)>>}

\* what the build process can leave after `done` edits were applied
BuildOutputs(done) ==
    IF \E n \in fixes_after : done >= n
    THEN {[status |-> 0, stderr |-> <<>>]}
    ELSE [status : {101, NoCode}, stderr : LoopStderrs]

-----------------------------------------------------------------------------
(* main *)

InitLoop ==
    /\ \E c \in LoopContents :
          fs = [p \in Paths |-> IF p = TestPath THEN c ELSE NoFile]
    /\ before = fs
    /\ ReadIdle
    /\ at = "whole"
    /\ comments = <<Comment(<<"task">>, <<Fragment(TestPath, 0, 6)>>)>>
    /\ pc = "pop"
    /\ comment = NoComment
    /\ prompt = NoPrompt
    /\ answer = <<>>
    /\ commit_message = <<>>
    /\ failure = "none"
    /\ fixes_after \in {Never} \cup {{n} : n \in 1..MaxFix}
    /\ cycles = 0
    /\ unbuilt = FALSE
    /\ debug_assertions \in BOOLEAN
    /\ output = [status |-> 0, stderr |-> <<>>]
    /\ built = Pending
    /\ transformation = NoCall
    /\ result = "pending"
    /\ value = <<>>
    /\ parsed = Pending

\* an error of a callee that main goes on after
Stop_Continue(res) ==
    /\ pc' = "build"
    /\ failure' = res

\* main ends: with Err(e) when a callee returned an error, by a panic
Stop(res) ==
    /\ pc' = IF res = "Panic" THEN "panicked" ELSE "failed"
    /\ failure' = res

\* a loop head that works on the last comment again when the stack is empty
Pop_Regenerate ==
    /\ pc = "pop"
    /\ IF comments = <<>>
       THEN pc' = "generate" /\ UNCHANGED <<comments, comment>>
       ELSE /\ pc' = "generate"
            /\ comment' = comments[Len(comments)]
            /\ comments' = SubSeq(comments, 1, Len(comments) - 1)
    /\ UNCHANGED <<fs, applyVars, parseVars, readVars, buildVars, prompt, answer,
                   commit_message, failure, fixes_after, cycles, unbuilt>>

\* while let Some(comment) = comments.pop()
Pop ==
    /\ pc = "pop"
    /\ IF comments = <<>>
       THEN pc' = "commit" /\ UNCHANGED <<comments, comment>>
       ELSE /\ pc' = "generate"
            /\ comment' = comments[Len(comments)]
            /\ comments' = SubSeq(comments, 1, Len(comments) - 1)
    /\ UNCHANGED <<fs, applyVars, parseVars, readVars, buildVars, prompt, answer,
                   commit_message, failure, fixes_after, cycles, unbuilt>>

\* generate_transformations, ended by an error of spatial_context, before
\* the oracle is asked
GenerateNoContext ==
    /\ pc = "generate"
    /\ context_of(fs, comment).res # "Ok"
    /\ Stop(context_of(fs, comment).res)
    /\ UNCHANGED <<fs, applyVars, parseVars, readVars, buildVars, comments, comment, prompt,
                   answer, commit_message, fixes_after, cycles, unbuilt>>

\* generate_transformations, ended by an error of the oracle
GenerateNoAnswer ==
    /\ pc = "generate"
    /\ context_of(fs, comment).res = "Ok"
    /\ prompt' = [kind |-> "code", message |-> comment.message,
                  context |-> context_of(fs, comment).context]
    /\ Stop("Oracle")
    /\ UNCHANGED <<fs, applyVars, parseVars, readVars, buildVars, comments, comment,
                   answer, commit_message, fixes_after, cycles, unbuilt>>

\* generate_transformations with an answer of the oracle: the answer is
\* parsed and its transformations are applied in order
Generate ==
    /\ pc = "generate"
    /\ context_of(fs, comment).res = "Ok"
    /\ prompt' = [kind |-> "code", message |-> comment.message,
                  context |-> context_of(fs, comment).context]
    /\ \E a \in LoopAnswers :
         /\ answer' = a
         /\ LET p == parse_from(a) IN
            IF p.res # "Ok"
            THEN Stop(p.res) /\ UNCHANGED <<fs, cycles, transformation, result, unbuilt>>
            ELSE IF p.seq = <<>>                 \* while transformations.is_empty()
                 THEN UNCHANGED <<pc, failure, fs, cycles, transformation, result,
                                  unbuilt>>
                 ELSE LET r == apply_all(fs, p.seq) IN
                      /\ fs' = r.fs
                      /\ transformation' = r.t
                      /\ result' = r.res
                      /\ unbuilt' = (unbuilt \/ r.n > 0)
                      /\ IF r.res = "Ok"
                         THEN /\ pc' = "build"
                              /\ cycles' = IF cycles < MaxCycles THEN cycles + 1 ELSE cycles
                              /\ UNCHANGED failure
                         ELSE Stop(r.res) /\ UNCHANGED cycles
    /\ UNCHANGED <<before, at, parseVars, readVars, buildVars, comments, comment,
                   commit_message, fixes_after>>

\* the last error of a build taken instead of the first
first_error_Last(errors) == errors[Len(errors)]

\* errors.first(), for a build that returned errors
first_error(errors) == errors[1]

\* the loop with the first error also pushed onto the work stack
BuildStep_Push ==
    /\ pc = "build"
    /\ \E rewrite \in BOOLEAN, out \in BuildOutputs(cycles) :
         /\ fs' = lint(fs, rewrite)
         /\ output' = out
         /\ built' = build(out, debug_assertions)
         /\ unbuilt' = FALSE
         /\ IF built'.res = "Ok"
            THEN pc' = "pop" /\ UNCHANGED <<comment, comments, failure>>
            ELSE IF built'.res = "Panic"
                 THEN Stop("Panic") /\ UNCHANGED <<comment, comments>>
                 ELSE IF built'.errors # <<>>
                      THEN pc' = "generate" /\ comment' = first_error(built'.errors)
                           /\ comments' = Append(comments, first_error(built'.errors))
                           /\ UNCHANGED failure
                      ELSE UNCHANGED <<pc, comment, comments, failure>>
    /\ UNCHANGED <<applyVars, parseVars, readVars, debug_assertions, prompt, answer,
                   commit_message, fixes_after, cycles>>

\* the condition of `while let Err(errors) = builder.build(..)` and the body
\* up to the call of generate_transformations: lint, build, and the first
\* error, if any, becomes the comment to work on
BuildStep ==
    /\ pc = "build"
    /\ \E rewrite \in BOOLEAN, out \in BuildOutputs(cycles) :
         /\ fs' = lint(fs, rewrite)
         /\ output' = out
         /\ built' = build(out, debug_assertions)
         /\ unbuilt' = FALSE
         /\ IF built'.res = "Ok"
            THEN pc' = "pop" /\ UNCHANGED <<comment, failure>>
            ELSE IF built'.res = "Panic"
                 THEN Stop("Panic") /\ UNCHANGED comment
                 ELSE IF built'.errors # <<>>
                      THEN pc' = "generate" /\ comment' = first_error(built'.errors)
                           /\ UNCHANGED failure
                      ELSE UNCHANGED <<pc, comment, failure>>
    /\ UNCHANGED <<applyVars, parseVars, readVars, debug_assertions, comments, prompt, answer,
                   commit_message, fixes_after, cycles>>

\* generate_commit, ended by an error of the oracle
CommitNoAnswer ==
    /\ pc = "commit"
    /\ prompt' = [kind |-> "commit", diff |-> diff(fs)]
    /\ Stop("Oracle")
    /\ UNCHANGED <<fs, applyVars, parseVars, readVars, buildVars, comments, comment,
                   answer, commit_message, fixes_after, cycles, unbuilt>>

\* generate_commit: the oracle is asked to summarize the diff, main binds
\* the reply to _commit_message and returns Ok(())
Commit ==
    /\ pc = "commit"
    /\ prompt' = [kind |-> "commit", diff |-> diff(fs)]
    /\ \E m \in Summaries :
         /\ answer' = m
         /\ commit_message' = m
    /\ pc' = "done"
    /\ UNCHANGED <<fs, applyVars, parseVars, readVars, buildVars, comments, comment,
                   failure, fixes_after, cycles, unbuilt>>

NextLoop ==
    \/ Pop
    \/ GenerateNoContext
    \/ GenerateNoAnswer
    \/ Generate
    \/ BuildStep
    \/ CommitNoAnswer
    \/ Commit

SpecLoop == InitLoop /\ [][NextLoop]_vars

\* the retry budget K of the claim
K == 3

\* C3 (as claimed): when no edit ever makes the build succeed, the loop
\* stops with an Unconverged error after K generate->apply->build cycles, so
\* no run makes more than K cycles.
C3_RetryBound ==
    fixes_after = Never => cycles <= K

SpecLoopFair == InitLoop /\ [][NextLoop]_vars /\ WF_vars(BuildStep)

Ended == pc \in {"done", "failed", "panicked"}

\* C12: from a loop head reached with an empty work stack, main asks no
\* edits of the oracle, applies nothing and runs no build: its next steps
\* are the request to summarize the diff and its end.
C12_EmptyStackSummarizes ==
    [][(comments = <<>> /\ pc \in {"pop", "commit"})
          => /\ pc' \in {"commit", "done", "failed"}
             /\ fs' = fs /\ cycles' = cycles /\ built' = built
             /\ transformation' = transformation /\ result' = result
             /\ (pc = "pop" => prompt' = prompt)
             /\ (pc = "commit" => prompt'.kind = "commit")]_vars

\* C12 witness: the loop head found the stack empty after the seeded
\* comment's cycle, and the summary has not been asked for yet
C12_Witness ==
    /\ pc = "commit" /\ comments = <<>>
    /\ prompt.kind = "code" /\ built.res = "Ok" /\ cycles = 1

\* the errors transform returns (a panic is none of them)
ApplyErrors == {"OutOfBounds", "Io"}

\* C15: when a call of transform made for a parsed transformation returns an
\* error, main has ended with that error, and an ended main takes no step:
\* no further transformation, build, request for edits or summary.
C15_ApplyFailureAborts ==
    /\ [](result \in ApplyErrors => (pc = "failed" /\ failure = result))
    /\ [][~Ended]_vars

\* C15 witness: an edit past the end of the file was answered with the
\* out-of-bounds error after one completed cycle
C15_Witness ==
    /\ pc = "failed" /\ result = "OutOfBounds" /\ failure = "OutOfBounds"
    /\ cycles = 1 /\ prompt.kind = "code"

\* C16 (as claimed): an answer that does not parse never ends main.
C16_ParseFailureRetried ==
    ~(pc = "failed" /\ failure \in {"NoMatch", "Malformed"})

\* C17 (as claimed): after a failed build without diagnostics main does not
\* stay in the build step for ever: it asks for edits again or ends.
C17_ZeroDiagnosticsHandled ==
    (pc = "build" /\ built.res = "Err" /\ built.errors = <<>>) ~> (pc # "build")

RECURSIVE after(_, _, _)
\* the tree after the first n transformations of ts, one call each
after(f, ts, n) ==
    IF n = 0 THEN f ELSE transform(after(f, ts, n - 1), ts[n]).fs

C19_SummaryAfterGoodBuild ==
    (pc \in {"commit", "done"} \/ prompt.kind = "commit")
        => /\ comments = <<>>
           /\ built.res = "Ok" /\ output.status = 0
           /\ ~unbuilt

\* C19 witness: the summary was asked for after three cycles
C19_Witness ==
    /\ prompt.kind = "commit" /\ cycles = 3 /\ fixes_after = {3}
    /\ output.status = 0

\* C20: after a failed build with diagnostics, the comment main asks edits
\* for next is the one made of the first error block of that build's stderr,
\* and the work stack is left as it is.
C20_FirstDiagnosticNext ==
    [][(pc = "build" /\ built'.res = "Err" /\ built'.errors # <<>>)
          => LET first == ErrorBlocks(output'.stderr, 1)[1] IN
             /\ pc' = "generate"
             /\ comment' = built'.errors[1]
             /\ comment'.fragments[1].filepath = first.path
             /\ comment'.fragments[1].line_range[2] = parse_usize(first.line).n
             /\ comments' = comments]_vars

\* C20 witness: a build left two diagnostics and the first is worked on
C20_Witness ==
    /\ pc = "generate" /\ built.res = "Err" /\ Len(built.errors) = 2
    /\ comment = built.errors[1] /\ comment # built.errors[2]

\* the line count of the file ts[i] names, once the first i - 1
\* transformations of ts are written
count_at(f, ts, i) ==
    LET content == after(f, ts, i - 1)[ts[i].fragment.filepath] IN
    IF content = NoFile THEN 0 ELSE Len(str_lines(content))

\* an endpoint of ts[i] lies past that line count
PastEnd(f, ts, i) ==
    \E k \in 1..2 : ts[i].fragment.line_range[k] > count_at(f, ts, i)

\* C21: the context of a prompt holds the lines the fragment's file has when
\* generate_transformations is called, and each transformation of an answer
\* is tested against the line count its file has after the transformations
\* before it: all that were applied lie within it, and the one answered with
\* the out-of-bounds error is the one that lies past it.
C21_CurrentFileState ==
    [][(pc = "generate" /\ (pc' = "build" \/ result' \notin {"pending", "Ok"}))
          => LET ts == parse_from(answer').seq
                 fr == comment.fragments[1]
                 ls == str_lines(fs[fr.filepath])
             IN
             /\ prompt'.context =
                   <<[filepath |-> fr.filepath,
                      lines |-> [n \in 1..(fr.line_range[2] - fr.line_range[1]) |->
                                    <<n - 1, ls[fr.line_range[1] + n]>>]]>>
             /\ pc' = "build" => \A i \in 1..Len(ts) : ~PastEnd(fs, ts, i)
             /\ pc' # "build" =>
                   \E i \in 1..Len(ts) :
                      /\ \A j \in 1..(i - 1) : ~PastEnd(fs, ts, j)
                      /\ fs' = after(fs, ts, i - 1)
                      /\ transformation' = ts[i]
                      /\ after(fs, ts, i - 1)[ts[i].fragment.filepath] # NoFile
                            => (result' = "OutOfBounds" <=> PastEnd(fs, ts, i))]_vars

\* C21 witness: the second edit of an answer lay within the six lines the
\* file had before the first edit and past the five it had after it
C21_Witness ==
    /\ pc = "failed" /\ result = "OutOfBounds" /\ cycles = 0
    /\ transformation.fragment.line_range = <<6, 6>>
    /\ Len(str_lines(before[TestPath])) = 6
    /\ Len(str_lines(fs[TestPath])) = 5

====
